---- MODULE Spec2Model ----
(***************************************************************************)
(* Offline-first task synchronisation layer of the React Native task       *)
(* manager: StorageService (key-value store, cache layer, task repository, *)
(* offline queue) and ApiService (sync orchestrator).                      *)
(*                                                                         *)
(* A handler is one atomic action, except where a claim is about calls     *)
(* that overlap: there saveTask and syncOfflineChanges are taken one await *)
(* at a time.  A handler is written as a function of a "world"             *)
(* w = [st, log]: st is the content of AsyncStorage, log the sequence of   *)
(* AsyncStorage and gateway calls the handler has made so far.             *)
(* AsyncStorage calls are taken to succeed (no medium failure).            *)
(* Date values are millisecond integers; toISOString followed by new Date  *)
(* keeps the millisecond value, so createdAt is that integer.              *)
(***************************************************************************)
EXTENDS Integers, Sequences, FiniteSets, TLC

VARIABLES
    storage,    \* AsyncStorage: key -> stored string (Absent, Json(v) or Raw(s))
    isOnline,   \* ApiService.isOnline
    now,        \* Date.now()
    op,         \* the last operation and its arguments
    result,     \* what the last operation returned
    apiResult,  \* what fetchTasksFromApi returned inside the last getTasks
    log,        \* AsyncStorage and gateway calls of the last operation, in order
    pre,        \* AsyncStorage as it was when the last operation started
    calls       \* the calls that are suspended at an await, by call slot

vars == <<storage, isOnline, now, op, result, apiResult, log, pre, calls>>

----------------------------------------------------------------------------
(* Bounds of the model *)

MaxTasks == 2       \* records in the Task Repository
MaxQueue == 2       \* changes in the offline queue when a mutation starts
MaxFetch == 2       \* items in one gateway response
MaxRand == 0        \* Math.random() suffixes 0..MaxRand
MaxRemoteId == 1    \* remote ids 1..MaxRemoteId (0: an item without id)
MaxRepo == 3        \* ids of the Task Repository taken on its own
MaxCreatedAt == 2   \* creation times 0..MaxCreatedAt of those records
MaxMerge == 3       \* records in a list handed to the merge on its own

----------------------------------------------------------------------------
(* Program constants *)

CACHE_PREFIX == "CACHE_"
SHORT == 5 * 60 * 1000
MEDIUM == 30 * 60 * 1000
LONG == 24 * 60 * 60 * 1000

\* A storage key is its prefix and the rest of its name, so that
\* key.startsWith(CACHE_PREFIX) is a test of the prefix.
PlainKey(name) == [prefix |-> "", name |-> name]
CacheKeyOf(name) == [prefix |-> CACHE_PREFIX, name |-> name]

TASKS == PlainKey("TASKS")
USER == PlainKey("USER")
THEME == PlainKey("THEME")
SETTINGS == PlainKey("APP_SETTINGS")
OFFLINE_CHANGES == PlainKey("OFFLINE_CHANGES")
CACHE_tasks_list == CacheKeyOf("tasks_list")
CACHE_app_theme == CacheKeyOf("app_theme")

Keys == {TASKS, USER, THEME, SETTINGS, OFFLINE_CHANGES, CACHE_tasks_list, CACHE_app_theme}

\* The instants the clock takes: an entry written at 0 or 1 is read at an age of
\* 0, 1, SHORT - 1 (still valid) and SHORT (expired).
Instants == {0, 1, SHORT}

----------------------------------------------------------------------------
(* JavaScript values and stored strings *)

Null == [t |-> "null"]
Str(s) == [t |-> "string", s |-> s]
Arr(items) == [t |-> "array", items |-> items]
Envelope(data, timestamp, expirationTime) ==
    [t |-> "object", data |-> data, timestamp |-> timestamp,
     expirationTime |-> expirationTime]

Bool(b) == [t |-> "boolean", b |-> b]

Absent == [t |-> "absent"]            \* getItem resolves to null
Json(v) == [t |-> "json", v |-> v]    \* a string JSON.parse turns into v
Raw(s) == [t |-> "raw", s |-> s]      \* a string JSON.parse rejects

\* {...a, ...b}
Spread(a, b) ==
    [f \in (DOMAIN a) \cup (DOMAIN b) |-> IF f \in DOMAIN b THEN b[f] ELSE a[f]]

Field(rec, f) == IF f \in DOMAIN rec THEN rec[f] ELSE "undefined"

Ret(w, v) == [w |-> w, v |-> v]

Logged(w, e) == [w EXCEPT !.log = Append(@, e)]

----------------------------------------------------------------------------
(* AsyncStorage *)

AS_getItem(w, key) ==
    Ret(Logged(w, [ev |-> "getItem", key |-> key, val |-> w.st[key]]), w.st[key])

AS_setItem(w, key, str) ==
    [st |-> [w.st EXCEPT ![key] = str],
     log |-> Append(w.log, [ev |-> "setItem", key |-> key, val |-> str])]

AS_removeItem(w, key) ==
    [st |-> [k \in DOMAIN w.st |-> IF k = key THEN Absent ELSE w.st[k]],
     log |-> Append(w.log, [ev |-> "removeItem", key |-> key])]

AS_multiRemove(w, keys) ==
    [st |-> [k \in DOMAIN w.st |-> IF k \in keys THEN Absent ELSE w.st[k]],
     log |-> Append(w.log, [ev |-> "multiRemove", keys |-> keys])]

AS_getAllKeys(w) == {k \in DOMAIN w.st : w.st[k] # Absent}

----------------------------------------------------------------------------
(* StorageService: key-value store and cache layer *)

\* !value for what getItem resolved to: null, or the empty string
Falsy(str) == str = Absent \/ str = Raw("")

\* get(key): null when absent or empty, the parsed value, or the raw string
get(w, key) ==
    LET r == AS_getItem(w, key) IN
    IF Falsy(r.v) THEN Ret(r.w, Null)
    ELSE IF r.v.t = "json" THEN Ret(r.w, r.v.v)
    ELSE Ret(r.w, Str(r.v.s))

\* set(key, value): a string is stored as it is, anything else stringified
set(w, key, value) ==
    AS_setItem(w, key, IF value.t = "string" THEN Raw(value.s) ELSE Json(value))

remove(w, key) == AS_removeItem(w, key)

\* Mutant of getCached: the validity comparison is reversed
getCached_reversed(w, key, expirationTime, t) ==
    LET cacheKey == CacheKeyOf(key)
        r == AS_getItem(w, cacheKey)
    IN  IF Falsy(r.v) THEN Ret(r.w, Null)
        ELSE IF r.v.t = "json" /\ r.v.v.t = "object"
             THEN IF t - r.v.v.timestamp > expirationTime
                  THEN Ret(r.w, r.v.v.data)
                  ELSE Ret(remove(r.w, cacheKey), Null)
             ELSE Ret(remove(r.w, cacheKey), Null)

\* Mutant of getCached: an entry is still valid at the end of its window
getCached_inclusive(w, key, expirationTime, t) ==
    LET cacheKey == CacheKeyOf(key)
        r == AS_getItem(w, cacheKey)
    IN  IF Falsy(r.v) THEN Ret(r.w, Null)
        ELSE IF r.v.t = "json" /\ r.v.v.t = "object"
             THEN IF t - r.v.v.timestamp <= expirationTime
                  THEN Ret(r.w, r.v.v.data)
                  ELSE Ret(remove(r.w, cacheKey), Null)
             ELSE Ret(remove(r.w, cacheKey), Null)

\* Mutant of getCached: the window stored in the envelope decides, not the
\* window passed to the read
getCached_storedWindow(w, key, expirationTime, t) ==
    LET cacheKey == CacheKeyOf(key)
        r == AS_getItem(w, cacheKey)
    IN  IF Falsy(r.v) THEN Ret(r.w, Null)
        ELSE IF r.v.t = "json" /\ r.v.v.t = "object"
             THEN IF t - r.v.v.timestamp < r.v.v.expirationTime
                  THEN Ret(r.w, r.v.v.data)
                  ELSE Ret(remove(r.w, cacheKey), Null)
             ELSE Ret(remove(r.w, cacheKey), Null)

\* getCached(key, expirationTime) at time t
getCached(w, key, expirationTime, t) ==
    LET cacheKey == CacheKeyOf(key)
        r == AS_getItem(w, cacheKey)
    IN  IF Falsy(r.v) THEN Ret(r.w, Null)
        ELSE IF r.v.t = "json" /\ r.v.v.t = "object"
             THEN IF t - r.v.v.timestamp < expirationTime
                  THEN Ret(r.w, r.v.v.data)
                  ELSE Ret(remove(r.w, cacheKey), Null)
             ELSE Ret(remove(r.w, cacheKey), Null)

\* setCached(key, value, expirationTime) at time t
setCached(w, key, value, expirationTime, t) ==
    AS_setItem(w, CacheKeyOf(key), Json(Envelope(value, t, expirationTime)))

----------------------------------------------------------------------------
(* StorageService: task repository and offline queue *)

\* tasks.sort((a, b) => new Date(b.createdAt) - new Date(a.createdAt)):
\* a stable sort, newest first
RECURSIVE InsertDesc(_, _)
InsertDesc(s, x) ==
    IF s = <<>> THEN <<x>>
    ELSE IF Head(s).createdAt >= x.createdAt
         THEN <<Head(s)>> \o InsertDesc(Tail(s), x)
         ELSE <<x>> \o s

RECURSIVE SortDesc(_)
SortDesc(s) ==
    IF s = <<>> THEN <<>>
    ELSE InsertDesc(SortDesc(SubSeq(s, 1, Len(s) - 1)), s[Len(s)])

\* findIndex(t => t.id === id): 0 stands for JavaScript's -1
FindIndex(tasks, id) ==
    IF \E i \in 1..Len(tasks) : tasks[i].id = id
    THEN CHOOSE i \in 1..Len(tasks) :
            tasks[i].id = id /\ \A j \in 1..(i - 1) : tasks[j].id # id
    ELSE 0

SS_getTasks(w) ==
    LET r == get(w, TASKS) IN
    Ret(r.w, IF r.v = Null THEN Arr(<<>>) ELSE r.v)

SS_saveTasks(w, tasks, t) ==
    setCached(set(w, TASKS, Arr(tasks)), "tasks_list", Arr(tasks), SHORT, t)

\* the found record, or Null for undefined
SS_getTaskById(w, id) ==
    LET r == SS_getTasks(w)
        i == FindIndex(r.v.items, id)
    IN  Ret(r.w, IF i = 0 THEN Null ELSE r.v.items[i])

\* Mutant of SortedUpsert: the list written back holds the saved task alone
SortedUpsert_aloneInList(tasks, task) == <<task>>

\* saveTask between its read and its write: the record is replaced or pushed
\* in the list that was read, and the list sorted
SortedUpsert(tasks, task) ==
    LET existingIndex == FindIndex(tasks, task.id)
        placed == IF existingIndex > 0
                  THEN [tasks EXCEPT ![existingIndex] = task]
                  ELSE Append(tasks, task)
    IN  SortDesc(placed)

\* Mutant of SS_saveTask: the list is written back without the sort
SS_saveTask_unsorted(w, task, t) ==
    LET r == SS_getTasks(w)
        tasks == r.v.items
        existingIndex == FindIndex(tasks, task.id)
        placed == IF existingIndex > 0
                  THEN [tasks EXCEPT ![existingIndex] = task]
                  ELSE Append(tasks, task)
    IN  SS_saveTasks(r.w, placed, t)

SS_saveTask(w, task, t) ==
    LET r == SS_getTasks(w)
        tasks == r.v.items
        existingIndex == FindIndex(tasks, task.id)
        placed == IF existingIndex > 0
                  THEN [tasks EXCEPT ![existingIndex] = task]
                  ELSE Append(tasks, task)
    IN  SS_saveTasks(r.w, SortDesc(placed), t)

\* StorageService.updateTask: the merged record, or Null when the id is unknown
SS_updateTask(w, taskId, updates, t) ==
    LET r == SS_getTasks(w)
        tasks == r.v.items
        index == FindIndex(tasks, taskId)
    IN  IF index > 0
        THEN LET merged == [tasks EXCEPT ![index] = Spread(tasks[index], updates)]
             IN  Ret(SS_saveTasks(r.w, merged, t), merged[index])
        ELSE Ret(r.w, Null)

\* Mutant of SS_deleteTask: the whole list is dropped, not only the record
SS_deleteTask_wipes(w, taskId, t) ==
    LET r == SS_getTasks(w)
    IN  SS_saveTasks(r.w, <<>>, t)

SS_deleteTask(w, taskId, t) ==
    LET r == SS_getTasks(w)
        filtered == SelectSeq(r.v.items, LAMBDA x : x.id # taskId)
    IN  SS_saveTasks(r.w, filtered, t)

SS_getOfflineChanges(w) ==
    LET r == get(w, OFFLINE_CHANGES) IN
    Ret(r.w, IF r.v = Null THEN Arr(<<>>) ELSE r.v)

SS_saveOfflineChanges(w, changes) == set(w, OFFLINE_CHANGES, Arr(changes))

SS_clearOfflineChanges(w) == remove(w, OFFLINE_CHANGES)

\* Mutant of SS_clearCache: every stored key is removed, not only the cache keys
SS_clearCache_all(w) == AS_multiRemove(w, AS_getAllKeys(w))

SS_clearCache(w) ==
    LET keys == AS_getAllKeys(w)
        cacheKeys == {key \in keys : key.prefix = CACHE_PREFIX}
    IN  AS_multiRemove(w, cacheKeys)

\* Mutant of SS_clearAllData: the offline queue is cut back to its first
\* change instead of being removed
SS_clearAllData_trims(w) ==
    LET g == SS_getOfflineChanges(w)
        kept == IF Len(g.v.items) > 1 THEN SubSeq(g.v.items, 1, 1) ELSE g.v.items
        keys == AS_getAllKeys(w)
        cacheKeys == {key \in keys : key.prefix = CACHE_PREFIX}
    IN  AS_multiRemove(SS_saveOfflineChanges(g.w, kept), {USER} \cup cacheKeys)

SS_clearAllData(w) ==
    LET keysToRemove == {USER, OFFLINE_CHANGES}
        keys == AS_getAllKeys(w)
        cacheKeys == {key \in keys : key.prefix = CACHE_PREFIX}
    IN  AS_multiRemove(w, keysToRemove \cup cacheKeys)

----------------------------------------------------------------------------
(* ApiService (sync orchestrator) *)

\* `local-${Date.now()}-${Math.floor(Math.random() * 1000)}`, r the random draw
generateUniqueId(t, r) == "local-" \o ToString(t) \o "-" \o ToString(r)

\* apiCall: the gateway call is logged with its outcome; ok = FALSE is a throw
apiCall(w, method, endpoint, ok) ==
    Logged(w, [ev |-> "apiCall", method |-> method, endpoint |-> endpoint, ok |-> ok])

\* what a successful PUT resolves to
RemoteResponse == [t |-> "object"]

\* Mutant of addToOfflineChangesQueue: the change goes to the head of the queue
addToOfflineChangesQueue_prepends(w, action, taskData, t, r) ==
    LET change == [action |-> action,
                   task |-> Spread(taskData,
                                [id |-> IF "id" \in DOMAIN taskData
                                        THEN taskData.id
                                        ELSE generateUniqueId(t, r),
                                 synced |-> FALSE]),
                   timestamp |-> t]
        g == SS_getOfflineChanges(w)
    IN  SS_saveOfflineChanges(g.w, <<change>> \o g.v.items)

\* Mutant of addToOfflineChangesQueue: the caller's fields win over the
\* enqueue's id and synced
addToOfflineChangesQueue_callerWins(w, action, taskData, t, r) ==
    LET change == [action |-> action,
                   task |-> Spread([id |-> IF "id" \in DOMAIN taskData
                                           THEN taskData.id
                                           ELSE generateUniqueId(t, r),
                                    synced |-> FALSE],
                                   taskData),
                   timestamp |-> t]
        g == SS_getOfflineChanges(w)
    IN  SS_saveOfflineChanges(g.w, Append(g.v.items, change))

addToOfflineChangesQueue(w, action, taskData, t, r) ==
    LET change == [action |-> action,
                   task |-> Spread(taskData,
                                [id |-> IF "id" \in DOMAIN taskData
                                        THEN taskData.id
                                        ELSE generateUniqueId(t, r),
                                 synced |-> FALSE]),
                   timestamp |-> t]
        g == SS_getOfflineChanges(w)
    IN  SS_saveOfflineChanges(g.w, Append(g.v.items, change))

\* One fetched item in the local task shape; stamp is the clock when it is mapped
MapItem(item, stamp, r) ==
    [id |-> IF item.id # 0 THEN ToString(item.id) ELSE generateUniqueId(stamp, r),
     title |-> item.title,
     description |-> "User ID: " \o ToString(item.userId) \o " (Completed: "
                        \o (IF item.completed THEN "true" ELSE "false") \o ")",
     priority |-> IF item.completed THEN "low" ELSE "medium",
     source |-> "api",
     createdAt |-> stamp]

\* Mutant of fetchTasksFromApi: a failed fetch drops the entry it falls back on
fetchTasksFromApi_purges(w, forceRefresh, online, t, fetch) ==
    LET c == IF forceRefresh THEN Ret(w, Null) ELSE getCached(w, "tasks_list", SHORT, t)
    IN
    IF c.v # Null
    THEN Ret(c.w, [success |-> TRUE, data |-> c.v, source |-> "cache", offline |-> FALSE])
    ELSE IF ~online
    THEN LET e == get(c.w, CACHE_tasks_list) IN
         IF e.v.t = "object" /\ e.v.data # Null
         THEN Ret(e.w, [success |-> TRUE, data |-> e.v.data, source |-> "cache",
                        offline |-> TRUE])
         ELSE Ret(e.w, [success |-> FALSE,
                        error |-> "Offline and no cached data available.",
                        offline |-> TRUE])
    ELSE LET a == apiCall(c.w, "GET", "/todos", fetch.ok) IN
         IF fetch.ok
         THEN LET tasks == [i \in 1..Len(fetch.items) |->
                               MapItem(fetch.items[i], fetch.stamps[i], fetch.rands[i])]
                  s == setCached(a, "tasks_list", Arr(tasks), SHORT, fetch.end)
              IN  Ret(s, [success |-> TRUE, data |-> Arr(tasks), source |-> "api",
                          offline |-> FALSE])
         ELSE LET e == get(a, CACHE_tasks_list) IN
              IF e.v.t = "object" /\ e.v.data # Null
              THEN Ret(remove(e.w, CACHE_tasks_list),
                       [success |-> TRUE, data |-> e.v.data, source |-> "cache",
                        offline |-> TRUE])
              ELSE Ret(e.w, [success |-> FALSE, error |-> "API Error"])

\* Mutant of fetchTasksFromApi: the fetched list is returned without being
\* written to the cache
fetchTasksFromApi_noWriteThrough(w, forceRefresh, online, t, fetch) ==
    LET c == IF forceRefresh THEN Ret(w, Null) ELSE getCached(w, "tasks_list", SHORT, t)
    IN
    IF c.v # Null
    THEN Ret(c.w, [success |-> TRUE, data |-> c.v, source |-> "cache", offline |-> FALSE])
    ELSE IF ~online
    THEN LET e == get(c.w, CACHE_tasks_list) IN
         IF e.v.t = "object" /\ e.v.data # Null
         THEN Ret(e.w, [success |-> TRUE, data |-> e.v.data, source |-> "cache",
                        offline |-> TRUE])
         ELSE Ret(e.w, [success |-> FALSE,
                        error |-> "Offline and no cached data available.",
                        offline |-> TRUE])
    ELSE LET a == apiCall(c.w, "GET", "/todos", fetch.ok) IN
         IF fetch.ok
         THEN LET tasks == [i \in 1..Len(fetch.items) |->
                               MapItem(fetch.items[i], fetch.stamps[i], fetch.rands[i])]
              IN  Ret(a, [success |-> TRUE, data |-> Arr(tasks), source |-> "api",
                          offline |-> FALSE])
         ELSE LET e == get(a, CACHE_tasks_list) IN
              IF e.v.t = "object" /\ e.v.data # Null
              THEN Ret(e.w, [success |-> TRUE, data |-> e.v.data, source |-> "cache",
                             offline |-> TRUE])
              ELSE Ret(e.w, [success |-> FALSE, error |-> "API Error"])

\* fetchTasksFromApi(forceRefresh).  fetch is the gateway's part: fetch.ok,
\* fetch.items (the response), fetch.rands (the random draws of the mapping),
\* fetch.stamps (the clock at each item's mapping), fetch.end (the clock at
\* the cache write).
fetchTasksFromApi(w, forceRefresh, online, t, fetch) ==
    LET c == IF forceRefresh THEN Ret(w, Null) ELSE getCached(w, "tasks_list", SHORT, t)
    IN
    IF c.v # Null
    THEN Ret(c.w, [success |-> TRUE, data |-> c.v, source |-> "cache", offline |-> FALSE])
    ELSE IF ~online
    THEN LET e == get(c.w, CACHE_tasks_list) IN
         IF e.v.t = "object" /\ e.v.data # Null
         THEN Ret(e.w, [success |-> TRUE, data |-> e.v.data, source |-> "cache",
                        offline |-> TRUE])
         ELSE Ret(e.w, [success |-> FALSE,
                        error |-> "Offline and no cached data available.",
                        offline |-> TRUE])
    ELSE LET a == apiCall(c.w, "GET", "/todos", fetch.ok) IN
         IF fetch.ok
         THEN LET tasks == [i \in 1..Len(fetch.items) |->
                               MapItem(fetch.items[i], fetch.stamps[i], fetch.rands[i])]
                  s == setCached(a, "tasks_list", Arr(tasks), SHORT, fetch.end)
              IN  Ret(s, [success |-> TRUE, data |-> Arr(tasks), source |-> "api",
                          offline |-> FALSE])
         ELSE LET e == get(a, CACHE_tasks_list) IN
              IF e.v.t = "object" /\ e.v.data # Null
              THEN Ret(e.w, [success |-> TRUE, data |-> e.v.data, source |-> "cache",
                             offline |-> TRUE])
              ELSE Ret(e.w, [success |-> FALSE, error |-> "API Error"])

\* uniqueTasksMap.set(task.id, task): a Map keeps the place of a key it has
MapSet(m, task) ==
    IF \E i \in 1..Len(m) : m[i].id = task.id
    THEN [i \in 1..Len(m) |-> IF m[i].id = task.id THEN task ELSE m[i]]
    ELSE Append(m, task)

MapHas(m, id) == \E i \in 1..Len(m) : m[i].id = id

\* Mutant of UniqueTasks: every record overrides the one the map holds
RECURSIVE UniqueTasks_lastWins(_, _)
UniqueTasks_lastWins(m, combined) ==
    IF combined = <<>> THEN m
    ELSE UniqueTasks_lastWins(MapSet(m, Head(combined)), Tail(combined))

\* the loop over combinedTasks, and Array.from(uniqueTasksMap.values())
RECURSIVE UniqueTasks(_, _)
UniqueTasks(m, combined) ==
    IF combined = <<>> THEN m
    ELSE LET task == Head(combined) IN
         UniqueTasks(
            IF ~MapHas(m, task.id) \/ Field(task, "source") = "api"
                                   \/ Field(task, "source") = "cache"
            THEN MapSet(m, task) ELSE m,
            Tail(combined))

\* permanentLocalTasks.map(task => ({...task, source: 'local_permanent'}))
MarkLocal(tasks) ==
    [i \in 1..Len(tasks) |-> Spread(tasks[i], [source |-> "local_permanent"])]

\* Mutant of Api_getTasks: a failed fetchTasksFromApi ends the call with no data
Api_getTasks_failFast(w, forceRefresh, online, t, fetch) ==
    LET f == fetchTasksFromApi(w, forceRefresh, online, t, fetch)
        l == SS_getTasks(f.w)
        uniqueTasks == SortDesc(UniqueTasks(<<>>, f.v.data.items \o MarkLocal(l.v.items)))
    IN  IF f.v.success
        THEN [w |-> l.w,
              v |-> [success |-> TRUE, data |-> Arr(uniqueTasks), source |-> f.v.source,
                     offline |-> f.v.offline],
              api |-> f.v]
        ELSE [w |-> f.w,
              v |-> [success |-> TRUE, data |-> Arr(<<>>), source |-> "api",
                     offline |-> FALSE],
              api |-> f.v]

\* getTasks(forceRefresh): v is the result, api what fetchTasksFromApi returned
Api_getTasks(w, forceRefresh, online, t, fetch) ==
    LET f == fetchTasksFromApi(w, forceRefresh, online, t, fetch)
        finalData == IF f.v.success THEN f.v.data.items ELSE <<>>
        finalSource == IF f.v.success THEN f.v.source ELSE "api"
        offlineMode == IF f.v.success THEN f.v.offline ELSE FALSE
        l == SS_getTasks(f.w)
        combinedTasks == finalData \o MarkLocal(l.v.items)
        uniqueTasks == SortDesc(UniqueTasks(<<>>, combinedTasks))
    IN  [w |-> l.w,
         v |-> [success |-> TRUE, data |-> Arr(uniqueTasks), source |-> finalSource,
                offline |-> offlineMode],
         api |-> f.v]

Api_addTask(w, taskData, t, r) ==
    LET newTask == Spread(taskData,
                      [id |-> generateUniqueId(t, r), createdAt |-> t,
                       offline |-> TRUE, source |-> "local_permanent",
                       synced |-> FALSE])
        s == SS_saveTask(w, newTask, t)
        c == remove(s, CACHE_tasks_list)
    IN  Ret(c, [success |-> TRUE, data |-> newTask, offline |-> TRUE,
                source |-> "local_permanent"])

\* Mutant of Api_deleteTask: a failed gateway delete is reported to the caller
Api_deleteTask_surfaces(w, taskId, online, t, r, ok, onlineAtReturn) ==
    LET g == SS_getTaskById(w, taskId) IN
    IF g.v # Null
    THEN LET d == SS_deleteTask(g.w, taskId, t)
             c == remove(d, CACHE_tasks_list)
         IN  Ret(c, [success |-> TRUE, offline |-> TRUE, source |-> "local_permanent"])
    ELSE IF online
    THEN LET a == apiCall(g.w, "DELETE", "/todos/" \o taskId, ok) IN
         IF ok
         THEN Ret(remove(a, CACHE_tasks_list), [success |-> TRUE, offline |-> ~onlineAtReturn])
         ELSE Ret(a, [success |-> FALSE, error |-> "API Error", offline |-> FALSE])
    ELSE LET q == addToOfflineChangesQueue(g.w, "delete", [id |-> taskId], t, r)
         IN  Ret(remove(q, CACHE_tasks_list), [success |-> TRUE, offline |-> ~onlineAtReturn])

Api_deleteTask(w, taskId, online, t, r, ok, onlineAtReturn) ==
    LET g == SS_getTaskById(w, taskId) IN
    IF g.v # Null
    THEN LET d == SS_deleteTask(g.w, taskId, t)
             c == remove(d, CACHE_tasks_list)
         IN  Ret(c, [success |-> TRUE, offline |-> TRUE, source |-> "local_permanent"])
    ELSE IF online
    THEN LET a == apiCall(g.w, "DELETE", "/todos/" \o taskId, ok) IN
         IF ok
         THEN Ret(remove(a, CACHE_tasks_list), [success |-> TRUE, offline |-> ~onlineAtReturn])
         ELSE LET q == addToOfflineChangesQueue(a, "delete", [id |-> taskId], t, r)
              IN  Ret(remove(q, CACHE_tasks_list), [success |-> TRUE, offline |-> TRUE])
    ELSE LET q == addToOfflineChangesQueue(g.w, "delete", [id |-> taskId], t, r)
         IN  Ret(remove(q, CACHE_tasks_list), [success |-> TRUE, offline |-> ~onlineAtReturn])

\* Mutant of Api_updateTask: a queued update also removes the tasks_list entry
Api_updateTask_invalidates(w, taskId, updates, online, t, r, ok) ==
    IF online
    THEN LET a == apiCall(w, "PUT", "/todos/" \o taskId, ok) IN
         IF ok
         THEN Ret(a, [success |-> TRUE, data |-> RemoteResponse, offline |-> FALSE])
         ELSE Ret(remove(addToOfflineChangesQueue(a, "update",
                             Spread([id |-> taskId], updates), t, r),
                         CACHE_tasks_list),
                  [success |-> TRUE, offline |-> TRUE])
    ELSE Ret(remove(addToOfflineChangesQueue(w, "update",
                        Spread([id |-> taskId], updates), t, r),
                    CACHE_tasks_list),
             [success |-> TRUE, offline |-> TRUE])

\* Mutant of Api_updateTask: an update the gateway refused is dropped
Api_updateTask_dropsOnFailure(w, taskId, updates, online, t, r, ok) ==
    IF online
    THEN LET a == apiCall(w, "PUT", "/todos/" \o taskId, ok) IN
         IF ok
         THEN Ret(a, [success |-> TRUE, data |-> RemoteResponse, offline |-> FALSE])
         ELSE Ret(a, [success |-> TRUE, offline |-> TRUE])
    ELSE Ret(addToOfflineChangesQueue(w, "update",
                 Spread([id |-> taskId], updates), t, r),
             [success |-> TRUE, offline |-> TRUE])

Api_updateTask(w, taskId, updates, online, t, r, ok) ==
    IF online
    THEN LET a == apiCall(w, "PUT", "/todos/" \o taskId, ok) IN
         IF ok
         THEN Ret(a, [success |-> TRUE, data |-> RemoteResponse, offline |-> FALSE])
         ELSE Ret(addToOfflineChangesQueue(a, "update",
                      Spread([id |-> taskId], updates), t, r),
                  [success |-> TRUE, offline |-> TRUE])
    ELSE Ret(addToOfflineChangesQueue(w, "update",
                 Spread([id |-> taskId], updates), t, r),
             [success |-> TRUE, offline |-> TRUE])

\* Mutant of Replay: the changes are replayed last-queued first
RECURSIVE Replay_reversed(_, _, _, _, _, _, _, _)
Replay_reversed(w, changes, i, onlines, t, rs, oks, syncResults) ==
    IF i > Len(changes) THEN Ret(w, syncResults)
    ELSE LET action == changes[Len(changes) + 1 - i].action
             task == changes[Len(changes) + 1 - i].task
         IN  IF action = "delete"
             THEN LET d == Api_deleteTask(w, task.id, onlines[i], t, rs[i], oks[i], onlines[i]) IN
                  Replay_reversed(d.w, changes, i + 1, onlines, t, rs, oks,
                         Append(syncResults,
                                [taskId |-> task.id, result |-> [success |-> TRUE],
                                 action |-> "delete"]))
             ELSE LET u == Api_updateTask(w, task.id, task, onlines[i], t, rs[i], oks[i]) IN
                  Replay_reversed(u.w, changes, i + 1, onlines, t, rs, oks,
                         Append(syncResults,
                                [taskId |-> task.id, result |-> u.v, action |-> action]))

\* The loop of syncOfflineChanges over the changes it read: onlines[i], oks[i]
\* and rs[i] are this.isOnline as the i-th replay reads it, the gateway outcome
\* and the random draw of the i-th replay.
RECURSIVE Replay(_, _, _, _, _, _, _, _)
Replay(w, changes, i, onlines, t, rs, oks, syncResults) ==
    IF i > Len(changes) THEN Ret(w, syncResults)
    ELSE LET action == changes[i].action
             task == changes[i].task
         IN  IF action = "create"
             THEN LET u == Api_updateTask(w, task.id, task, onlines[i], t, rs[i], oks[i]) IN
                  Replay(u.w, changes, i + 1, onlines, t, rs, oks,
                         Append(syncResults,
                                [taskId |-> task.id, result |-> u.v, action |-> "create"]))
             ELSE IF action = "delete"
             THEN LET d == Api_deleteTask(w, task.id, onlines[i], t, rs[i], oks[i], onlines[i]) IN
                  Replay(d.w, changes, i + 1, onlines, t, rs, oks,
                         Append(syncResults,
                                [taskId |-> task.id, result |-> [success |-> TRUE],
                                 action |-> "delete"]))
             ELSE LET u == Api_updateTask(w, task.id, task, onlines[i], t, rs[i], oks[i]) IN
                  Replay(u.w, changes, i + 1, onlines, t, rs, oks,
                         Append(syncResults,
                                [taskId |-> task.id, result |-> u.v, action |-> "update"]))

\* Mutant of Api_syncOfflineChanges: the connectivity guard is missing
Api_syncOfflineChanges_noGuard(w, online, t, rs, oks, onlines) ==
    LET g == SS_getOfflineChanges(w) IN
    IF Len(g.v.items) = 0
    THEN Ret(g.w, [success |-> TRUE, syncResults |-> <<>>])
    ELSE LET p == Replay(g.w, g.v.items, 1, onlines, t, rs, oks, <<>>)
             c == SS_clearOfflineChanges(p.w)
             k == remove(c, CACHE_tasks_list)
         IN  Ret(k, [success |-> TRUE, syncResults |-> p.v])

\* Mutant of Api_syncOfflineChanges: the queue is not cleared after the pass
Api_syncOfflineChanges_keepsQueue(w, online, t, rs, oks, onlines) ==
    IF ~online
    THEN Ret(w, [success |-> FALSE, error |-> "Cannot sync: Device is offline."])
    ELSE LET g == SS_getOfflineChanges(w) IN
         IF Len(g.v.items) = 0
         THEN Ret(g.w, [success |-> TRUE, syncResults |-> <<>>])
         ELSE LET p == Replay(g.w, g.v.items, 1, onlines, t, rs, oks, <<>>)
                  k == remove(p.w, CACHE_tasks_list)
              IN  Ret(k, [success |-> TRUE, syncResults |-> p.v])

\* Mutant of Api_syncOfflineChanges: the tasks_list entry survives the pass
Api_syncOfflineChanges_keepsCache(w, online, t, rs, oks, onlines) ==
    IF ~online
    THEN Ret(w, [success |-> FALSE, error |-> "Cannot sync: Device is offline."])
    ELSE LET g == SS_getOfflineChanges(w) IN
         IF Len(g.v.items) = 0
         THEN Ret(g.w, [success |-> TRUE, syncResults |-> <<>>])
         ELSE LET p == Replay(g.w, g.v.items, 1, onlines, t, rs, oks, <<>>)
                  c == SS_clearOfflineChanges(p.w)
              IN  Ret(c, [success |-> TRUE, syncResults |-> p.v])

Api_syncOfflineChanges(w, online, t, rs, oks, onlines) ==
    IF ~online
    THEN Ret(w, [success |-> FALSE, error |-> "Cannot sync: Device is offline."])
    ELSE LET g == SS_getOfflineChanges(w) IN
         IF Len(g.v.items) = 0
         THEN Ret(g.w, [success |-> TRUE, syncResults |-> <<>>])
         ELSE LET p == Replay(g.w, g.v.items, 1, onlines, t, rs, oks, <<>>)
                  c == SS_clearOfflineChanges(p.w)
                  k == remove(c, CACHE_tasks_list)
              IN  Ret(k, [success |-> TRUE, syncResults |-> p.v])

SS_saveUser(w, user) == set(w, USER, user)
SS_saveTheme(w, theme) == set(w, THEME, theme)
SS_saveSettings(w, settings) == set(w, SETTINGS, settings)

Api_clearAllCaches(w) == Ret(SS_clearCache(w), [success |-> TRUE])

\* RootApp.preloadTasks
preloadTasks(w, t) ==
    LET g == SS_getTasks(w) IN
    IF Len(g.v.items) > 0
    THEN setCached(g.w, "tasks_list", g.v, SHORT, t)
    ELSE g.w

\* the deleteTask thunk of the store: TASKS is read, filtered and written back
Store_deleteTask(w, taskId) ==
    LET g == AS_getItem(w, TASKS)
        tasks == IF g.v = Absent THEN <<>> ELSE g.v.v.items
        updated == SelectSeq(tasks, LAMBDA x : x.id # taskId)
    IN  AS_setItem(g.w, TASKS, Json(Arr(updated)))

\* TaskDetailsScreen.handleDelete, once the user has confirmed
handleDelete(w, taskId, t) ==
    LET d == SS_deleteTask(w, taskId, t)
        x == Store_deleteTask(d, taskId)
        c == remove(x, CacheKeyOf("task_" \o taskId))
    IN  remove(c, CACHE_tasks_list)

----------------------------------------------------------------------------
(* Inputs *)

\* what the screens pass to addTask, and to updateTask
TaskDataInputs == {[title |-> "Buy milk", priority |-> "low"]}
UpdateInputs == {[completed |-> TRUE]}

\* a remote item as the gateway delivers it; id 0 is an item without id
RemoteItem(i) == [id |-> i, title |-> "remote", userId |-> 1, completed |-> (i = 0)]

\* responses of the gateway: the remote ids of one response are distinct
Responses ==
    {its \in UNION {[1..n -> {RemoteItem(i) : i \in 0..MaxRemoteId}] : n \in 0..MaxFetch} :
        \A i, j \in 1..Len(its) : (i # j /\ its[i].id # 0) => its[i].id # its[j].id}

\* The clock readings of a mapping that starts at t: the clock may advance once
\* while the items are mapped (after the k-th item).
Stamps(t, n, k) == [i \in 1..n |-> IF i <= k THEN t ELSE t + 1]

RandSeqs == UNION {[1..n -> 0..MaxRand] : n \in 0..MaxFetch}

\* its: the response; rs: the random draws (0 where none is drawn); k: the
\* number of items mapped before the clock advances (all of them: no advance)
FetchInput(x, t) ==
    LET its == x[1]
        rs == x[2]
        k == x[3]
    IN  /\ Len(rs) = Len(its)
        /\ \A i \in 1..Len(its) : its[i].id # 0 => rs[i] = 0
        /\ \/ k = Len(its)
           \/ 1 <= k /\ k < Len(its) /\ (t + 1) \in Instants

FailedFetch(t) == [ok |-> FALSE, items |-> <<>>, rands |-> <<>>, stamps |-> <<>>, end |-> t]

\* what the gateway and the mapping of one fetch can do at time t
Fetches(t) ==
    {FailedFetch(t)}
    \cup
    {[ok |-> TRUE, items |-> x[1], rands |-> x[2],
      stamps |-> Stamps(t, Len(x[1]), x[3]),
      end |-> IF x[3] < Len(x[1]) THEN t + 1 ELSE t] :
        x \in {y \in Responses \X RandSeqs \X (0..MaxFetch) : FetchInput(y, t)}}

\* the cache layer on its own: logical keys, the values written under them,
\* the windows of CACHE_EXPIRATION and the instants of the clock
CacheNames == {"tasks_list", "app_theme"}
CacheValues(key) ==
    IF key = "app_theme" THEN {Str("dark")}
    ELSE {Arr(<<>>), Arr(<<[id |-> "1", title |-> "remote", createdAt |-> 0]>>)}
Windows == {SHORT, MEDIUM, LONG}
CacheInstants == {0, 1, SHORT, MEDIUM, LONG}

IdsOf(tasks) == {tasks[i].id : i \in 1..Len(tasks)}

StoredItems(st, key) == IF st[key].t = "json" THEN st[key].v.items ELSE <<>>

\* ids the screens pass to deleteTask and updateTask: an id that is not in the
\* Task Repository (whether the remote knows it shows in the gateway's answer)
\* and the ids of the permanent tasks
IdInputs(st) == {"1"} \cup IdsOf(StoredItems(st, TASKS))

World(st) == [st |-> st, log |-> <<>>]

\* the slots of the calls that may be suspended: two saveTask calls and one
\* syncOfflineChanges pass
Slots == {"saveTask-1", "saveTask-2", "syncOfflineChanges"}
Idle == [pc |-> "idle"]

----------------------------------------------------------------------------
(* State machine *)

Init ==
    /\ storage = [k \in Keys |-> Absent]
    /\ isOnline = TRUE
    /\ now = 0
    /\ op = [name |-> "init"]
    /\ result = Null
    /\ apiResult = Null
    /\ log = <<>>
    /\ pre = [k \in Keys |-> Absent]
    /\ calls = [s \in Slots |-> Idle]

\* a call ran from world World(storage) to r.w, up to its return or up to the
\* await it is suspended at, and r.v is what it has returned
Stepped(o, r) ==
    /\ op' = o
    /\ result' = r.v
    /\ storage' = r.w.st
    /\ log' = r.w.log
    /\ pre' = storage

\* a handler ran from world World(storage) to r.w and returned r.v
Handled(o, r) ==
    /\ Stepped(o, r)
    /\ calls' = calls

\* the gateway's answers to enumerate for a getTasks call: one is enough when
\* the call does not get as far as the gateway
FetchChoices(st, forceRefresh, online, t) ==
    LET f == fetchTasksFromApi(World(st), forceRefresh, online, t, FailedFetch(t)) IN
    IF \E i \in 1..Len(f.w.log) : f.w.log[i].ev = "apiCall"
    THEN Fetches(t)
    ELSE {FailedFetch(t)}

GetTasks ==
    \E forceRefresh \in BOOLEAN :
    \E fetch \in FetchChoices(storage, forceRefresh, isOnline, now) :
        LET r == Api_getTasks(World(storage), forceRefresh, isOnline, now, fetch)
            fetched == r.api.success /\ r.api.source = "api"
        IN  /\ Handled([name |-> "getTasks", forceRefresh |-> forceRefresh,
                        online |-> isOnline, t |-> now], r)
            /\ apiResult' = r.api
            /\ now' = IF fetched THEN fetch.end ELSE now
            /\ UNCHANGED isOnline

AddTask ==
    \E taskData \in TaskDataInputs, r \in 0..MaxRand :
        /\ Len(StoredItems(storage, TASKS)) < MaxTasks
        /\ Handled([name |-> "addTask", taskData |-> taskData, online |-> isOnline,
                    t |-> now],
                   Api_addTask(World(storage), taskData, now, r))
        /\ apiResult' = Null
        /\ UNCHANGED <<isOnline, now>>

\* deleteTask reads this.isOnline at its test and again where it returns
\* offline: !this.isOnline; the NetInfo listener may have run in between
DeleteTask ==
    \E taskId \in IdInputs(storage), ok \in BOOLEAN, onlineAtReturn \in BOOLEAN :
        /\ Len(StoredItems(storage, OFFLINE_CHANGES)) < MaxQueue
        /\ \/ onlineAtReturn = isOnline
           \/ /\ taskId \notin IdsOf(StoredItems(storage, TASKS))
              /\ ~isOnline \/ ok
        /\ Handled([name |-> "deleteTask", taskId |-> taskId, online |-> isOnline,
                    t |-> now],
                   Api_deleteTask(World(storage), taskId, isOnline, now, 0, ok,
                                  onlineAtReturn))
        /\ apiResult' = Null
        /\ isOnline' = onlineAtReturn
        /\ UNCHANGED now

UpdateTask ==
    \E taskId \in IdInputs(storage), updates \in UpdateInputs, ok \in BOOLEAN :
        /\ Len(StoredItems(storage, OFFLINE_CHANGES)) < MaxQueue
        /\ Handled([name |-> "updateTask", taskId |-> taskId, updates |-> updates,
                    online |-> isOnline, t |-> now],
                   Api_updateTask(World(storage), taskId, updates, isOnline, now, 0, ok))
        /\ apiResult' = Null
        /\ UNCHANGED <<isOnline, now>>

\* syncOfflineChanges reads this.isOnline at its guard, and every replayed
\* updateTask / deleteTask reads it again; the NetInfo listener may have run
\* in between
SyncOfflineChanges ==
    \E oks \in [1..Len(StoredItems(storage, OFFLINE_CHANGES)) -> BOOLEAN] :
    \E onlines \in [DOMAIN oks -> BOOLEAN] :
        /\ ~isOnline => \A i \in DOMAIN onlines : ~onlines[i]
        /\ \A i \in DOMAIN oks : ~onlines[i] => oks[i]
        /\ Handled([name |-> "syncOfflineChanges", online |-> isOnline, t |-> now,
                    onlines |-> onlines],
                   Api_syncOfflineChanges(World(storage), isOnline, now,
                       [i \in DOMAIN oks |-> 0], oks, onlines))
        /\ apiResult' = Null
        /\ isOnline' = IF onlines = <<>> THEN isOnline ELSE onlines[Len(onlines)]
        /\ UNCHANGED now

ClearAllCaches ==
    /\ Handled([name |-> "clearAllCaches", online |-> isOnline, t |-> now],
               Api_clearAllCaches(World(storage)))
    /\ apiResult' = Null
    /\ UNCHANGED <<isOnline, now>>

ClearAllData ==
    /\ Handled([name |-> "clearAllData", online |-> isOnline, t |-> now],
               Ret(SS_clearAllData(World(storage)), Bool(TRUE)))
    /\ apiResult' = Null
    /\ UNCHANGED <<isOnline, now>>

\* StorageService.saveTask called with a record that carries a remote id
RepoSaveTask ==
    \E task \in {[id |-> "1", title |-> "Remote copy", createdAt |-> now]} :
        /\ Len(StoredItems(storage, TASKS)) < MaxTasks
        /\ Handled([name |-> "saveTask", task |-> task, online |-> isOnline, t |-> now],
                   Ret(SS_saveTask(World(storage), task, now), task))
        /\ apiResult' = Null
        /\ UNCHANGED <<isOnline, now>>

PreloadTasks ==
    /\ Handled([name |-> "preloadTasks", online |-> isOnline, t |-> now],
               Ret(preloadTasks(World(storage), now), Null))
    /\ apiResult' = Null
    /\ UNCHANGED <<isOnline, now>>

HandleDelete ==
    \E taskId \in IdInputs(storage) :
        /\ Handled([name |-> "handleDelete", taskId |-> taskId, online |-> isOnline,
                    t |-> now],
                   Ret(handleDelete(World(storage), taskId, now), Null))
        /\ apiResult' = Null
        /\ UNCHANGED <<isOnline, now>>

\* the cache layer called on its own
SetCached ==
    \E key \in CacheNames, expirationTime \in Windows :
    \E value \in CacheValues(key) :
        /\ Handled([name |-> "setCached", key |-> key, value |-> value,
                    expirationTime |-> expirationTime, t |-> now],
                   Ret(setCached(World(storage), key, value, expirationTime, now),
                       Bool(TRUE)))
        /\ apiResult' = Null
        /\ UNCHANGED <<isOnline, now>>

GetCached ==
    \E key \in CacheNames, expirationTime \in Windows :
        /\ Handled([name |-> "getCached", key |-> key,
                    expirationTime |-> expirationTime, t |-> now],
                   getCached(World(storage), key, expirationTime, now))
        /\ apiResult' = Null
        /\ UNCHANGED <<isOnline, now>>

\* the raw read of a cache key, as the stale fallback does it
RawGet ==
    \E key \in CacheNames :
        /\ Handled([name |-> "get", key |-> CacheKeyOf(key), t |-> now],
                   get(World(storage), CacheKeyOf(key)))
        /\ apiResult' = Null
        /\ UNCHANGED <<isOnline, now>>

\* something outside the handlers happened: nothing was returned
Outside(name) ==
    /\ op' = [name |-> name]
    /\ result' = Null
    /\ apiResult' = Null
    /\ log' = <<>>
    /\ calls' = calls

\* the NetInfo listener: this.isOnline = state.isConnected
NetInfoChange ==
    \E isConnected \in BOOLEAN :
        /\ isConnected # isOnline
        /\ isOnline' = isConnected
        /\ Outside("netInfo")
        /\ pre' = storage
        /\ UNCHANGED <<storage, now>>

\* time passes
Tick ==
    \E t \in Instants :
        /\ t > now
        /\ now' = t
        /\ Outside("tick")
        /\ pre' = storage
        /\ UNCHANGED <<storage, isOnline>>

CacheTick ==
    \E t \in CacheInstants :
        /\ t > now
        /\ now' = t
        /\ Outside("tick")
        /\ pre' = storage
        /\ UNCHANGED <<storage, isOnline>>

\* the stored tasks_list entry is damaged: JSON.parse will reject it
CorruptCache ==
    /\ storage[CACHE_tasks_list] # Absent
    /\ storage[CACHE_tasks_list] # Raw("corrupt")
    /\ storage' = [storage EXCEPT ![CACHE_tasks_list] = Raw("corrupt")]
    /\ Outside("corruptCache")
    /\ pre' = storage
    /\ UNCHANGED <<isOnline, now>>

\* what a caller hands to addToOfflineChangesQueue: a task without an id, and
\* a task that carries an id and claims to be synced
EnqueueInputs == {[title |-> "Buy milk"], [id |-> "1", title |-> "remote", synced |-> TRUE]}

\* addToOfflineChangesQueue called on its own with a 'create' change
Enqueue ==
    \E taskData \in EnqueueInputs, r \in 0..MaxRand :
        /\ Len(StoredItems(storage, OFFLINE_CHANGES)) < MaxQueue
        /\ Handled([name |-> "addToOfflineChangesQueue", action |-> "create",
                    taskData |-> taskData, online |-> isOnline, t |-> now, r |-> r],
                   Ret(addToOfflineChangesQueue(World(storage), "create", taskData, now, r),
                       Null))
        /\ apiResult' = Null
        /\ UNCHANGED <<isOnline, now>>

\* the Task Repository on its own: records of MaxRepo ids and the creation
\* times 0..MaxCreatedAt, and partial updates that leave createdAt alone
RepoIds == {"task-" \o ToString(i) : i \in 1..MaxRepo}
RepoTaskInputs ==
    {[id |-> i, title |-> "task", createdAt |-> c] : i \in RepoIds, c \in 0..MaxCreatedAt}
RepoUpdateInputs == {[completed |-> TRUE]}

RepoSaveAny ==
    \E task \in RepoTaskInputs :
        /\ Handled([name |-> "saveTask", task |-> task, online |-> isOnline, t |-> now],
                   Ret(SS_saveTask(World(storage), task, now), task))
        /\ apiResult' = Null
        /\ UNCHANGED <<isOnline, now>>

RepoUpdateTask ==
    \E taskId \in RepoIds, updates \in RepoUpdateInputs :
        /\ Handled([name |-> "repoUpdateTask", taskId |-> taskId, updates |-> updates,
                    online |-> isOnline, t |-> now],
                   SS_updateTask(World(storage), taskId, updates, now))
        /\ apiResult' = Null
        /\ UNCHANGED <<isOnline, now>>

RepoDeleteTask ==
    \E taskId \in RepoIds :
        /\ Handled([name |-> "repoDeleteTask", taskId |-> taskId, online |-> isOnline,
                    t |-> now],
                   Ret(SS_deleteTask(World(storage), taskId, now), Null))
        /\ apiResult' = Null
        /\ UNCHANGED <<isOnline, now>>

\* what the screens store under USER, THEME and APP_SETTINGS
UserInputs == {[t |-> "object", name |-> "Ada"]}
ThemeInputs == {Str("dark")}
SettingsInputs == {[t |-> "object", notifications |-> TRUE]}

SaveUser ==
    \E user \in UserInputs :
        /\ Handled([name |-> "saveUser", user |-> user, t |-> now],
                   Ret(SS_saveUser(World(storage), user), Bool(TRUE)))
        /\ apiResult' = Null
        /\ UNCHANGED <<isOnline, now>>

SaveTheme ==
    \E theme \in ThemeInputs :
        /\ Handled([name |-> "saveTheme", theme |-> theme, t |-> now],
                   Ret(SS_saveTheme(World(storage), theme), Bool(TRUE)))
        /\ apiResult' = Null
        /\ UNCHANGED <<isOnline, now>>

SaveSettings ==
    \E settings \in SettingsInputs :
        /\ Handled([name |-> "saveSettings", settings |-> settings, t |-> now],
                   Ret(SS_saveSettings(World(storage), settings), Bool(TRUE)))
        /\ apiResult' = Null
        /\ UNCHANGED <<isOnline, now>>

\* StorageService.clearCache called on its own
ClearCache ==
    /\ Handled([name |-> "clearCache", t |-> now],
               Ret(SS_clearCache(World(storage)), Bool(TRUE)))
    /\ apiResult' = Null
    /\ UNCHANGED <<isOnline, now>>

\* the lists handed to the merge of getTasks on its own: up to MaxMerge records
\* of the ids and source tags below ("storage" is a tag outside the three the
\* merge knows)
MergeIds == {"1", "2"}
MergeSources == {"api", "cache", "local_permanent", "storage"}
MergeRecords == {[id |-> i, source |-> s] : i \in MergeIds, s \in MergeSources}
MergeInputs == UNION {[1..n -> MergeRecords] : n \in 0..MaxMerge}

InitMerge ==
    /\ storage = [k \in Keys |-> Absent]
    /\ isOnline = TRUE
    /\ now = 0
    /\ op \in {[name |-> "combinedTasks", combinedTasks |-> c] : c \in MergeInputs}
    /\ result = Null
    /\ apiResult = Null
    /\ log = <<>>
    /\ pre = [k \in Keys |-> Absent]
    /\ calls = [s \in Slots |-> Idle]

\* the loop over combinedTasks and Array.from(uniqueTasksMap.values())
Merge ==
    /\ op.name = "combinedTasks"
    /\ op' = [name |-> "uniqueTasks", combinedTasks |-> op.combinedTasks]
    /\ result' = Arr(UniqueTasks(<<>>, op.combinedTasks))
    /\ UNCHANGED <<storage, isOnline, now, apiResult, log, pre, calls>>

\* saveTask taken one await at a time.  A call in a slot is suspended at
\* getTasks ("read"), at set(TASKS) ("written") or has returned; read is the
\* list getTasks gave it, tasks that list as the call has changed it, and
\* overlapped records whether another saveTask call was in flight at any time
\* between its start and its return.
SaveSlots == {"saveTask-1", "saveTask-2"}
RaceTaskInputs == {[id |-> i, title |-> "task", createdAt |-> 0] : i \in RepoIds}
InFlight(c) == c.pc \in {"read", "written"}

\* const tasks = await this.getTasks()
SaveTaskBegin ==
    \E slot \in SaveSlots, task \in RaceTaskInputs :
        LET other == CHOOSE s \in SaveSlots : s # slot
            r == SS_getTasks(World(storage))
        IN  /\ ~InFlight(calls[slot])
            /\ Len(StoredItems(storage, TASKS)) < MaxTasks
            /\ calls' = [s \in Slots |->
                            IF s = slot
                            THEN [pc |-> "read", task |-> task, read |-> r.v.items,
                                  tasks |-> r.v.items, overlapped |-> InFlight(calls[other])]
                            ELSE IF s = other /\ InFlight(calls[other])
                            THEN [calls[other] EXCEPT !.overlapped = TRUE]
                            ELSE calls[s]]
            /\ Stepped([name |-> "saveTask:getTasks", slot |-> slot, task |-> task,
                        t |-> now],
                       Ret(r.w, Null))
            /\ apiResult' = Null
            /\ UNCHANGED <<isOnline, now>>

\* the list is updated and sorted; saveTasks: await this.set(TASKS, tasks)
SaveTaskWrite ==
    \E slot \in SaveSlots :
        LET c == calls[slot]
            tasks == SortedUpsert(c.tasks, c.task)
        IN  /\ c.pc = "read"
            /\ calls' = [calls EXCEPT ![slot] = [c EXCEPT !.pc = "written", !.tasks = tasks]]
            /\ Stepped([name |-> "saveTask:set", slot |-> slot, task |-> c.task,
                        t |-> now],
                       Ret(set(World(storage), TASKS, Arr(tasks)), Null))
            /\ apiResult' = Null
            /\ UNCHANGED <<isOnline, now>>

\* saveTasks: await this.setCached('tasks_list', tasks, SHORT); return task
SaveTaskReturn ==
    \E slot \in SaveSlots :
        LET c == calls[slot] IN
        /\ c.pc = "written"
        /\ calls' = [calls EXCEPT ![slot] = [c EXCEPT !.pc = "returned"]]
        /\ Stepped([name |-> "saveTask:return", slot |-> slot, task |-> c.task,
                    overlapped |-> c.overlapped, t |-> now],
                   Ret(setCached(World(storage), "tasks_list", Arr(c.tasks), SHORT, now),
                       c.task))
        /\ apiResult' = Null
        /\ UNCHANGED <<isOnline, now>>

\* stored strings that do not deserialize into an envelope: text JSON.parse
\* rejects, the empty string (which JSON.parse rejects too), and the JSON text
\* of an array
CorruptValues == {Raw("corrupt"), Raw(""), Json(Arr(<<>>))}

\* a stored cache entry is damaged
CorruptEntry ==
    \E key \in CacheNames, str \in CorruptValues :
        /\ storage[CacheKeyOf(key)] # Absent
        /\ storage[CacheKeyOf(key)] \notin CorruptValues
        /\ storage' = [storage EXCEPT ![CacheKeyOf(key)] = str]
        /\ Outside("corruptEntry")
        /\ pre' = storage
        /\ UNCHANGED <<isOnline, now>>

\* syncOfflineChanges taken one await at a time: the pass is suspended in its
\* loop, holding the changes it read, the index i of the next one to replay,
\* its syncResults, and copies: the changes its own replays have queued again
SyncSlot == "syncOfflineChanges"

\* the guard, and let changes = await StorageService.getOfflineChanges()
SyncBegin ==
    LET g == SS_getOfflineChanges(World(storage))
        o == [name |-> "syncOfflineChanges:getOfflineChanges", online |-> isOnline,
              t |-> now]
    IN  /\ calls[SyncSlot] = Idle
        /\ IF ~isOnline
           THEN /\ Stepped(o, Ret(World(storage),
                                  [success |-> FALSE,
                                   error |-> "Cannot sync: Device is offline."]))
                /\ calls' = calls
           ELSE IF Len(g.v.items) = 0
           THEN /\ Stepped(o, Ret(g.w, [success |-> TRUE, syncResults |-> <<>>]))
                /\ calls' = calls
           ELSE /\ Stepped(o, Ret(g.w, Null))
                /\ calls' = [calls EXCEPT ![SyncSlot] =
                                [pc |-> "replay", changes |-> g.v.items, i |-> 1,
                                 syncResults |-> <<>>, copies |-> <<>>]]
        /\ apiResult' = Null
        /\ UNCHANGED <<isOnline, now>>

\* one turn of the loop: the i-th change is replayed through updateTask or
\* deleteTask, which read this.isOnline as it is now
SyncReplay ==
    \E ok \in BOOLEAN :
        LET c == calls[SyncSlot]
            p == Replay(World(storage), <<c.changes[c.i]>>, 1, <<isOnline>>, now,
                        <<0>>, <<ok>>, c.syncResults)
            queued == SubSeq(StoredItems(p.w.st, OFFLINE_CHANGES),
                             Len(StoredItems(storage, OFFLINE_CHANGES)) + 1,
                             Len(StoredItems(p.w.st, OFFLINE_CHANGES)))
        IN  /\ c.pc = "replay"
            /\ c.i <= Len(c.changes)
            /\ ~isOnline => ok
            /\ Stepped([name |-> "syncOfflineChanges:replay", online |-> isOnline,
                        change |-> c.changes[c.i], t |-> now],
                       Ret(p.w, Null))
            /\ calls' = [calls EXCEPT ![SyncSlot] =
                            [c EXCEPT !.i = c.i + 1, !.syncResults = p.v,
                                      !.copies = c.copies \o queued]]
            /\ apiResult' = Null
            /\ UNCHANGED <<isOnline, now>>

\* after the loop: clearOfflineChanges, remove('CACHE_tasks_list'), return
SyncReturn ==
    LET c == calls[SyncSlot]
        q == SS_clearOfflineChanges(World(storage))
        k == remove(q, CACHE_tasks_list)
    IN  /\ c.pc = "replay"
        /\ c.i > Len(c.changes)
        /\ Stepped([name |-> "syncOfflineChanges:return", changes |-> c.changes,
                    copies |-> c.copies, t |-> now],
                   Ret(k, [success |-> TRUE, syncResults |-> c.syncResults]))
        /\ calls' = [calls EXCEPT ![SyncSlot] = Idle]
        /\ apiResult' = Null
        /\ UNCHANGED <<isOnline, now>>

Next ==
    \/ GetTasks
    \/ AddTask
    \/ DeleteTask
    \/ UpdateTask
    \/ SyncOfflineChanges
    \/ ClearAllCaches
    \/ ClearAllData
    \/ RepoSaveTask
    \/ PreloadTasks
    \/ HandleDelete
    \/ SetCached
    \/ GetCached
    \/ RawGet
    \/ NetInfoChange
    \/ Tick
    \/ CorruptCache
    \/ Enqueue
    \/ RepoSaveAny
    \/ RepoUpdateTask
    \/ RepoDeleteTask
    \/ SaveUser
    \/ SaveTheme
    \/ SaveSettings
    \/ ClearCache
    \/ SaveTaskBegin
    \/ SaveTaskWrite
    \/ SaveTaskReturn
    \/ CorruptEntry
    \/ SyncBegin
    \/ SyncReplay
    \/ SyncReturn

Spec == Init /\ [][Next]_vars

\* The read path: the views getTasks can return over every state of the Task
\* Repository and of the tasks_list cache entry
NextRead ==
    \/ GetTasks
    \/ AddTask
    \/ RepoSaveTask
    \/ PreloadTasks
    \/ ClearAllCaches
    \/ ClearAllData
    \/ HandleDelete
    \/ NetInfoChange
    \/ Tick
    \/ CorruptCache

SpecRead == Init /\ [][NextRead]_vars

\* The write path: the mutations and the drain of the offline queue
NextWrite ==
    \/ AddTask
    \/ DeleteTask
    \/ UpdateTask
    \/ SyncOfflineChanges
    \/ PreloadTasks
    \/ NetInfoChange
    \/ Tick

SpecWrite == Init /\ [][NextWrite]_vars

\* The cache layer on its own
NextCache ==
    \/ SetCached
    \/ GetCached
    \/ RawGet
    \/ CacheTick

SpecCache == Init /\ [][NextCache]_vars

\* The offline queue: everything that writes or removes OFFLINE_CHANGES
NextQueue ==
    \/ DeleteTask
    \/ UpdateTask
    \/ SyncOfflineChanges
    \/ ClearAllData
    \/ NetInfoChange
    \/ Tick
    \/ Enqueue

SpecQueue == Init /\ [][NextQueue]_vars

\* The Task Repository on its own
NextRepo ==
    \/ RepoSaveAny
    \/ RepoUpdateTask
    \/ RepoDeleteTask

SpecRepo == Init /\ [][NextRepo]_vars

\* The bulk clears over every key the application stores
NextClear ==
    \/ SaveUser
    \/ SaveTheme
    \/ SaveSettings
    \/ RepoSaveTask
    \/ Enqueue
    \/ SetCached
    \/ ClearCache
    \/ ClearAllCaches
    \/ ClearAllData

SpecClear == Init /\ [][NextClear]_vars

\* The merge of getTasks as a function of the list it is given
NextMerge == Merge

SpecMerge == InitMerge /\ [][NextMerge]_vars

\* Two saveTask calls whose awaits interleave
NextRace ==
    \/ SaveTaskBegin
    \/ SaveTaskWrite
    \/ SaveTaskReturn

SpecRace == Init /\ [][NextRace]_vars

\* The reads of a damaged cache entry
NextCorrupt ==
    \/ SetCached
    \/ CorruptEntry
    \/ GetCached
    \/ GetTasks
    \/ NetInfoChange

SpecCorrupt == Init /\ [][NextCorrupt]_vars

\* A syncOfflineChanges pass with the mutations that can run between its awaits
NextSync ==
    \/ UpdateTask
    \/ DeleteTask
    \/ SyncBegin
    \/ SyncReplay
    \/ SyncReturn
    \/ NetInfoChange

SpecSync == Init /\ [][NextSync]_vars

----------------------------------------------------------------------------
(* Properties *)

RepoTasks(st) == StoredItems(st, TASKS)
Queue(st) == StoredItems(st, OFFLINE_CHANGES)
GatewayCalls(l) == {i \in 1..Len(l) : l[i].ev = "apiCall"}
IsEnvelope(str) == str.t = "json" /\ str.v.t = "object"
Distinct(tasks) == \A i, j \in 1..Len(tasks) : i # j => tasks[i].id # tasks[j].id
Descending(tasks) ==
    \A i, j \in 1..Len(tasks) : i < j => tasks[i].createdAt >= tasks[j].createdAt
RecordsOf(tasks) == {tasks[i] : i \in 1..Len(tasks)}

\* the remote/cache subset of the last getTasks
RemoteSubset == IF apiResult.success THEN apiResult.data.items ELSE <<>>

\* C1: the data of getTasks holds no two records of one id, and for an id that
\* is both in the remote/cache subset and in the Task Repository the record
\* kept is one of the remote/cache subset.
C1_MergeKeepsRemote ==
    op.name = "getTasks" =>
        LET data == result.data.items IN
        /\ Distinct(data)
        /\ \A i \in 1..Len(data) :
              data[i].id \in IdsOf(RemoteSubset) \cap IdsOf(RepoTasks(pre))
                 => data[i] \in RecordsOf(RemoteSubset)

\* C1 witness: a fetched record and a permanent record of the same id, which
\* differ, went through the merge.
C1_Witness ==
    /\ op.name = "getTasks"
    /\ apiResult.success /\ apiResult.source = "api"
    /\ \E r \in RecordsOf(RemoteSubset), l \in RecordsOf(MarkLocal(RepoTasks(pre))) :
          r.id = l.id /\ r # l

\* the last operation deleted id from the Task Repository
Deleted(id) ==
    \/ op.name \in {"deleteTask", "handleDelete"} /\ op.taskId = id
    \/ /\ op.name = "syncOfflineChanges"
       /\ \E c \in RecordsOf(Queue(pre)) : c.action = "delete" /\ c.task.id = id

\* C2: a record of the Task Repository stays there until it is deleted, and
\* every getTasks returns a record of each id the Task Repository holds,
\* whatever the connectivity, the gateway and the cache entry did.
C2_PermanentDurable ==
    /\ \A id \in IdsOf(RepoTasks(pre)) : id \in IdsOf(RepoTasks(storage)) \/ Deleted(id)
    /\ op.name = "getTasks" =>
          /\ result.success
          /\ IdsOf(RepoTasks(storage)) \subseteq IdsOf(result.data.items)

\* C2 witness: getTasks with a permanent task, a corrupt cache entry and no
\* remote/cache subset to be had.
C2_Witness ==
    /\ op.name = "getTasks"
    /\ RepoTasks(pre) # <<>>
    /\ pre[CACHE_tasks_list] = Raw("corrupt")
    /\ ~apiResult.success

\* C3 (as claimed): getTasks offline with no tasks_list entry returns success
\* false and offline true.
C3_OfflineNoCacheFails ==
    (op.name = "getTasks" /\ ~op.online /\ pre[CACHE_tasks_list] = Absent)
        => (~result.success /\ result.offline)

\* C4: syncOfflineChanges offline returns success false, calls no gateway and
\* leaves the queue, the Task Repository and the tasks_list entry as they were.
C4_SyncOfflineRefused ==
    (op.name = "syncOfflineChanges" /\ ~op.online) =>
        /\ ~result.success
        /\ GatewayCalls(log) = {}
        /\ storage[OFFLINE_CHANGES] = pre[OFFLINE_CHANGES]
        /\ storage[TASKS] = pre[TASKS]
        /\ storage[CACHE_tasks_list] = pre[CACHE_tasks_list]

\* C4 witness: the sync was refused with changes waiting in the queue.
C4_Witness ==
    /\ op.name = "syncOfflineChanges" /\ ~op.online
    /\ Queue(pre) # <<>>
    /\ RepoTasks(pre) # <<>>
    /\ ~result.success

\* getTasks(false) found the tasks_list entry inside its SHORT window
ValidHit ==
    /\ op.name = "getTasks" /\ ~op.forceRefresh
    /\ IsEnvelope(pre[CACHE_tasks_list])
    /\ op.t - pre[CACHE_tasks_list].v.timestamp < SHORT

\* C5 (as claimed): on a valid entry getTasks(false) calls no gateway and
\* returns source cache, offline false; with an empty Task Repository the data
\* is exactly the cached array.
C5_ValidCacheExact ==
    ValidHit =>
        /\ GatewayCalls(log) = {}
        /\ result.source = "cache" /\ ~result.offline
        /\ RepoTasks(pre) = <<>> => result.data = pre[CACHE_tasks_list].v.data

\* C5 (amended): on a valid entry getTasks(false) calls no gateway and returns
\* source cache, offline false; with an empty Task Repository the data holds
\* one record of the cached array for each of its ids, newest first, and is
\* exactly the cached array when that has distinct ids and is newest first.
C5_ValidCacheServed ==
    ValidHit =>
        /\ GatewayCalls(log) = {}
        /\ result.source = "cache" /\ ~result.offline
        /\ RepoTasks(pre) = <<>> =>
              LET cached == pre[CACHE_tasks_list].v.data.items
                  data == result.data.items
              IN  /\ IdsOf(data) = IdsOf(cached)
                  /\ RecordsOf(data) \subseteq RecordsOf(cached)
                  /\ Distinct(data) /\ Descending(data)
                  /\ (Distinct(cached) /\ Descending(cached)) => data = cached

\* C5 witness: offline, a valid entry of two records and an empty Task
\* Repository: the cached array came back.
C5_Witness ==
    /\ ValidHit /\ ~op.online
    /\ RepoTasks(pre) = <<>>
    /\ Len(pre[CACHE_tasks_list].v.data.items) = 2
    /\ result.data = pre[CACHE_tasks_list].v.data

\* getCached(k, w) read an entry that setCached(k, v, w) had written
SameWindowRead ==
    /\ op.name = "getCached"
    /\ IsEnvelope(pre[CacheKeyOf(op.key)])
    /\ pre[CacheKeyOf(op.key)].v.expirationTime = op.expirationTime

\* C6: getCached(k, w) on an entry written by setCached(k, v, w) returns v while
\* less than w has elapsed; from w on it returns null and removes the entry, and
\* a raw read of a removed entry returns null.
C6_CacheExpiration ==
    /\ SameWindowRead =>
          LET e == pre[CacheKeyOf(op.key)].v IN
          IF op.t - e.timestamp < op.expirationTime
          THEN result = e.data
          ELSE result = Null /\ storage[CacheKeyOf(op.key)] = Absent
    /\ (op.name = "get" /\ pre[op.key] = Absent) => result = Null

\* C6 witness: a checked read exactly one window after the write missed and
\* purged the entry.
C6_Witness ==
    /\ SameWindowRead
    /\ op.t - pre[CacheKeyOf(op.key)].v.timestamp = op.expirationTime
    /\ result = Null
    /\ storage[CacheKeyOf(op.key)] = Absent

\* getTasks(false) offline found the tasks_list entry, holding tasks, past its
\* SHORT window
StaleOffline ==
    /\ op.name = "getTasks" /\ ~op.forceRefresh /\ ~op.online
    /\ IsEnvelope(pre[CACHE_tasks_list])
    /\ pre[CACHE_tasks_list].v.data.items # <<>>
    /\ op.t - pre[CACHE_tasks_list].v.timestamp >= SHORT

\* C7 (as claimed): getTasks(false) offline on an entry past its window returns
\* the entry's tasks through the stale fallback, source cache, offline true.
C7_StaleFallbackOffline ==
    StaleOffline =>
        /\ apiResult.success
        /\ apiResult.data = pre[CACHE_tasks_list].v.data
        /\ result.source = "cache" /\ result.offline

\* the i-th call of the last operation is a gateway fetch that failed
FailedFetchAt(i) ==
    /\ log[i].ev = "apiCall"
    /\ log[i].method = "GET"
    /\ ~log[i].ok

WritesCache(e) ==
    \/ e.ev \in {"setItem", "removeItem"} /\ e.key.prefix = CACHE_PREFIX
    \/ e.ev = "multiRemove" /\ \E k \in e.keys : k.prefix = CACHE_PREFIX

\* C8: when the gateway fetch of an online getTasks fails, the fallback reads
\* CACHE_tasks_list; an envelope with data found there is returned with source
\* cache, offline true, and from the failed fetch on no cache entry is written
\* or removed.
C8_OnlineFailureFallback ==
    (op.name = "getTasks" /\ op.online) =>
        \A i \in 1..Len(log) : FailedFetchAt(i) =>
            /\ i < Len(log)
            /\ log[i + 1].ev = "getItem" /\ log[i + 1].key = CACHE_tasks_list
            /\ \A j \in (i + 1)..Len(log) : ~WritesCache(log[j])
            /\ storage[CACHE_tasks_list] = log[i + 1].val
            /\ IsEnvelope(log[i + 1].val) =>
                  /\ apiResult = [success |-> TRUE, data |-> log[i + 1].val.v.data,
                                  source |-> "cache", offline |-> TRUE]
                  /\ result.source = "cache" /\ result.offline
                  /\ IdsOf(log[i + 1].val.v.data.items) \subseteq IdsOf(result.data.items)

\* C8 witness: an online getTasks whose fetch failed found an envelope with
\* tasks and returned them.
C8_Witness ==
    /\ op.name = "getTasks" /\ op.online
    /\ \E i \in 1..Len(log) :
          /\ FailedFetchAt(i)
          /\ IsEnvelope(log[i + 1].val)
          /\ log[i + 1].val.v.data.items # <<>>
    /\ result.source = "cache" /\ result.offline

\* C9: addTask, updateTask and deleteTask return success true, for every id,
\* connectivity and gateway outcome.
C9_MutationsSucceed ==
    op.name \in {"addTask", "updateTask", "deleteTask"} => result.success

\* C9 witness: an online deleteTask of an id the Task Repository does not hold,
\* whose gateway call failed, returned success.
C9_Witness ==
    /\ op.name = "deleteTask" /\ op.online
    /\ op.taskId \notin IdsOf(RepoTasks(pre))
    /\ \E i \in GatewayCalls(log) : ~log[i].ok
    /\ result.success

\* C10 (as claimed): addTask calls no gateway and leaves the offline queue
\* alone; afterwards the Task Repository holds exactly one new record, of a
\* fresh id, with source local_permanent, offline true, synced false, and the
\* tasks_list entry is absent.
C10_AddTaskAddsOne ==
    op.name = "addTask" =>
        LET before == RepoTasks(pre)
            after == RepoTasks(storage)
        IN  /\ GatewayCalls(log) = {}
            /\ storage[OFFLINE_CHANGES] = pre[OFFLINE_CHANGES]
            /\ result.data.id \notin IdsOf(before)
            /\ Len(after) = Len(before) + 1
            /\ RecordsOf(after) = RecordsOf(before) \cup {result.data}
            /\ result.data.source = "local_permanent"
            /\ result.data.offline /\ ~result.data.synced
            /\ storage[CACHE_tasks_list] = Absent

\* deleteTask(id) was called with an id the Task Repository held
LocalDelete ==
    /\ op.name = "deleteTask"
    /\ op.taskId \in IdsOf(RepoTasks(pre))

\* C11: deleteTask of an id in the Task Repository removes that record and no
\* other, leaves the tasks_list entry absent, calls no gateway, leaves the
\* offline queue alone, and returns offline true, source local_permanent.
C11_DeleteLocalFrame ==
    LocalDelete =>
        /\ RepoTasks(storage) = SelectSeq(RepoTasks(pre), LAMBDA x : x.id # op.taskId)
        /\ storage[CACHE_tasks_list] = Absent
        /\ GatewayCalls(log) = {}
        /\ storage[OFFLINE_CHANGES] = pre[OFFLINE_CHANGES]
        /\ result.offline /\ result.source = "local_permanent"

\* C11 witness: online, one of two permanent tasks was deleted and the other
\* stayed; the tasks_list entry that was there is gone.
C11_Witness ==
    /\ LocalDelete /\ op.online
    /\ Len(RepoTasks(pre)) = 2
    /\ Len(RepoTasks(storage)) = 1
    /\ pre[CACHE_tasks_list] # Absent
    /\ storage[CACHE_tasks_list] = Absent

\* deleteTask(id) was called with an id the Task Repository did not hold
RemoteDelete ==
    /\ op.name = "deleteTask"
    /\ op.taskId \notin IdsOf(RepoTasks(pre))

\* the queue grew by exactly one change of this action and id, at the tail
Enqueued(action, id) ==
    LET before == Queue(pre)
        after == Queue(storage)
    IN  /\ Len(after) = Len(before) + 1
        /\ SubSeq(after, 1, Len(before)) = before
        /\ after[Len(after)].action = action
        /\ after[Len(after)].task.id = id

\* C12: offline, deleteTask of an id that is not in the Task Repository calls
\* no gateway and appends exactly one change {action delete, task.id = id} at
\* the tail of the offline queue, the changes queued before staying as they were.
C12_DeleteRemoteOffline ==
    (RemoteDelete /\ ~op.online) =>
        /\ GatewayCalls(log) = {}
        /\ Enqueued("delete", op.taskId)

\* C12 witness: an offline delete of a remote id was queued behind a change of
\* another action that was already waiting.
C12_Witness ==
    /\ RemoteDelete /\ ~op.online
    /\ Len(Queue(pre)) = 1
    /\ Queue(pre)[1].action = "update"
    /\ Len(Queue(storage)) = 2
    /\ Queue(storage)[2].action = "delete"

\* a gateway call of the last operation failed
GatewayFailed == \E i \in GatewayCalls(log) : ~log[i].ok

\* C13 (as claimed): called online, deleteTask of an id that is not in the Task
\* Repository calls the gateway once; when that succeeds the tasks_list entry
\* is absent, nothing is queued and offline is false; when it fails exactly one
\* delete change of the id is queued, the tasks_list entry is absent, and the
\* result is success true, offline true.
C13_DeleteRemoteOnline ==
    (RemoteDelete /\ op.online) =>
        /\ Cardinality(GatewayCalls(log)) = 1
        /\ storage[CACHE_tasks_list] = Absent
        /\ result.success
        /\ IF GatewayFailed
           THEN Enqueued("delete", op.taskId) /\ result.offline
           ELSE storage[OFFLINE_CHANGES] = pre[OFFLINE_CHANGES] /\ ~result.offline

\* the change at the tail of the queue carries the fields of the partial update
CarriesUpdates(updates) ==
    LET task == Queue(storage)[Len(Queue(storage))].task IN
    \A f \in DOMAIN updates \ {"id", "synced"} :
        f \in DOMAIN task /\ task[f] = updates[f]

\* C14: updateTask calls the gateway update exactly once when online and never
\* when offline; an update change with the id and the partial fields is
\* appended to the queue exactly when the update did not reach the remote, and
\* then offline is true; on gateway success nothing is queued and offline is
\* false.
C14_UpdateRouting ==
    op.name = "updateTask" =>
        /\ Cardinality(GatewayCalls(log)) = IF op.online THEN 1 ELSE 0
        /\ \A i \in GatewayCalls(log) :
              log[i].method = "PUT" /\ log[i].endpoint = "/todos/" \o op.taskId
        /\ IF ~op.online \/ GatewayFailed
           THEN /\ Enqueued("update", op.taskId)
                /\ CarriesUpdates(op.updates)
                /\ result.offline
           ELSE /\ storage[OFFLINE_CHANGES] = pre[OFFLINE_CHANGES]
                /\ ~result.offline

\* C14 witness: online, the gateway refused the update and it was queued
\* behind a change that was already waiting.
C14_Witness ==
    /\ op.name = "updateTask" /\ op.online /\ GatewayFailed
    /\ Queue(pre) # <<>>
    /\ Len(Queue(storage)) = Len(Queue(pre)) + 1
    /\ result.offline

\* a syncOfflineChanges call that started online on a non-empty queue
SyncPass ==
    /\ op.name = "syncOfflineChanges" /\ op.online
    /\ Queue(pre) # <<>>

\* the gateway calls of the last operation, in the order they were made
CallsMade ==
    LET made == SelectSeq(log, LAMBDA e : e.ev = "apiCall") IN
    [k \in 1..Len(made) |-> [method |-> made[k].method, endpoint |-> made[k].endpoint]]

\* the gateway call that replays change c
CallFor(c) ==
    [method |-> IF c.action = "delete" THEN "DELETE" ELSE "PUT",
     endpoint |-> "/todos/" \o c.task.id]

\* the queue positions whose replay found the connectivity flag online and an
\* id the Task Repository does not hold as a delete target, in queue order
ReplayedAtGateway ==
    LET q == Queue(pre) IN
    SelectSeq([i \in 1..Len(q) |-> i],
              LAMBDA i : /\ op.onlines[i]
                         /\ ~(q[i].action = "delete" /\ q[i].task.id \in IdsOf(RepoTasks(pre))))

\* C15: a sync pass replays the queued changes against the gateway one at a
\* time in the order they were enqueued: the gateway calls of the pass are the
\* calls for the replayed changes, in queue order.
C15_SyncFifo ==
    SyncPass =>
        CallsMade = [k \in 1..Len(ReplayedAtGateway) |->
                        CallFor(Queue(pre)[ReplayedAtGateway[k]])]

\* C15 witness: two changes of different actions were waiting and both were
\* replayed against the gateway.
C15_Witness ==
    /\ SyncPass
    /\ Len(Queue(pre)) = 2
    /\ Queue(pre)[1].action # Queue(pre)[2].action
    /\ Len(CallsMade) = 2

\* the last operation wrote the offline queue back (a replay re-enqueued)
Requeued == \E i \in 1..Len(log) : log[i].ev = "setItem" /\ log[i].key = OFFLINE_CHANGES

\* C16: when a sync pass returns the offline queue is empty and the result is
\* success true, whether or not replays failed: neither a change whose replay
\* failed nor the copy the failing replay queued is kept.
C16_SyncClearsQueue ==
    SyncPass =>
        /\ result.success
        /\ Queue(storage) = <<>>
        /\ storage[OFFLINE_CHANGES] = Absent

\* C16 witness: a replay failed at the gateway and queued its change again
\* during the pass; the queue is empty afterwards.
C16_Witness ==
    /\ SyncPass /\ GatewayFailed /\ Requeued
    /\ result.success
    /\ storage[OFFLINE_CHANGES] = Absent

\* C17 (as claimed): every syncOfflineChanges call that starts online ends
\* with the tasks_list entry absent, also when the queue it read was empty.
C17_SyncAlwaysInvalidates ==
    (op.name = "syncOfflineChanges" /\ op.online) =>
        storage[CACHE_tasks_list] = Absent

\* C17 (amended): a syncOfflineChanges call that starts online and reads a
\* non-empty queue ends with the tasks_list entry absent; one that reads an
\* empty queue returns success with storage, the tasks_list entry included,
\* as it was.
C17_SyncInvalidatesAfterPass ==
    (op.name = "syncOfflineChanges" /\ op.online) =>
        IF Queue(pre) # <<>>
        THEN storage[CACHE_tasks_list] = Absent
        ELSE result.success /\ storage = pre

\* C17 witness: a pass over a non-empty queue removed the tasks_list entry
\* that was there.
C17_Witness ==
    /\ SyncPass
    /\ pre[CACHE_tasks_list] # Absent
    /\ storage[CACHE_tasks_list] = Absent

\* the i-th storage call of the last operation writes / removes OFFLINE_CHANGES
WritesQueue(i) == log[i].ev = "setItem" /\ log[i].key = OFFLINE_CHANGES
RemovesQueue(i) ==
    \/ log[i].ev = "removeItem" /\ log[i].key = OFFLINE_CHANGES
    \/ log[i].ev = "multiRemove" /\ OFFLINE_CHANGES \in log[i].keys

\* the offline queue after the first i storage calls of the last operation
QueueAt(i) ==
    LET touched == {j \in 1..i : WritesQueue(j) \/ RemovesQueue(j)} IN
    IF touched = {} THEN Queue(pre)
    ELSE LET m == CHOOSE j \in touched : \A k \in touched : k <= j
         IN  IF WritesQueue(m) THEN log[m].val.v.items ELSE <<>>

\* b is a with one change appended
Appends(a, b) == Len(b) = Len(a) + 1 /\ SubSeq(b, 1, Len(a)) = a

\* every write of the queue appends one change to what was there, and a
\* non-empty queue is removed only by the operations named, as their last
\* touch of it
QueueSteps(removers) ==
    /\ \A i \in 1..Len(log) :
          /\ WritesQueue(i) => Appends(QueueAt(i - 1), QueueAt(i))
          /\ (RemovesQueue(i) /\ QueueAt(i - 1) # <<>>) =>
                /\ op.name \in removers
                /\ \A j \in (i + 1)..Len(log) : ~WritesQueue(j)
    /\ Queue(storage) = QueueAt(Len(log))
    /\ \/ storage[OFFLINE_CHANGES] = pre[OFFLINE_CHANGES]
       \/ Appends(Queue(pre), Queue(storage))
       \/ Queue(storage) = <<>> /\ op.name \in removers

\* C18 (as claimed): in every step the offline queue stays unchanged, grows by
\* one change appended at the tail, or is emptied as a whole, and it is
\* emptied only at the end of a syncOfflineChanges pass.
C18_QueueOnlySyncEmpties == QueueSteps({"syncOfflineChanges"})

\* C18 (amended): in every step the offline queue stays unchanged, grows by
\* one change appended at the tail, or is emptied as a whole, and it is
\* emptied only at the end of a syncOfflineChanges pass or by clearAllData.
C18_QueueAppendOrEmpty == QueueSteps({"syncOfflineChanges", "clearAllData"})

\* C18 witness: a sync pass whose failing replay appended to the queue before
\* the pass emptied it.
C18_Witness ==
    /\ SyncPass /\ Requeued
    /\ \E i \in 1..Len(log) : RemovesQueue(i)
    /\ Len(Queue(pre)) = 2
    /\ Queue(storage) = <<>>

\* addToOfflineChangesQueue was called with a task the caller built
DirectEnqueue == op.name = "addToOfflineChangesQueue"

\* C19: every change in the offline queue has task.synced = false and a
\* defined task.id: the enqueue keeps the id the caller supplied, generates
\* one (generateUniqueId at the time of the call) when there is none, and
\* sets synced to false over whatever the caller supplied.
C19_QueuedChangesWellFormed ==
    /\ \A i \in 1..Len(Queue(storage)) :
          LET task == Queue(storage)[i].task IN
          /\ "id" \in DOMAIN task /\ task.id # "undefined"
          /\ "synced" \in DOMAIN task /\ task.synced = FALSE
    /\ DirectEnqueue =>
          LET task == Queue(storage)[Len(Queue(storage))].task IN
          /\ Appends(Queue(pre), Queue(storage))
          /\ task.synced = FALSE
          /\ task.id = IF "id" \in DOMAIN op.taskData
                       THEN op.taskData.id
                       ELSE generateUniqueId(op.t, op.r)

\* C19 witness: a task without an id was queued, then a task with id "1" that
\* claimed synced true: the first got a generated id, the second kept its id
\* and lost its synced value.
C19_Witness ==
    /\ DirectEnqueue
    /\ "synced" \in DOMAIN op.taskData /\ op.taskData.synced
    /\ Len(Queue(storage)) = 2
    /\ Queue(storage)[1].task.id = generateUniqueId(0, 0)
    /\ Queue(storage)[2].task.id = "1"
    /\ ~Queue(storage)[2].task.synced

\* saveTask was called with an id the Task Repository already held
Upsert ==
    /\ op.name = "saveTask"
    /\ op.task.id \in IdsOf(RepoTasks(pre))

\* C20: after any sequence of saveTask, updateTask and deleteTask of the Task
\* Repository whose updates leave createdAt alone, the list under TASKS is
\* ordered by createdAt descending, and saveTask of an id already present
\* replaces that record instead of adding a second one.
C20_RepoOrderedUpsert ==
    /\ Descending(RepoTasks(storage))
    /\ SS_getTasks(World(storage)).v.items = RepoTasks(storage)
    /\ Upsert =>
          LET before == RepoTasks(pre)
              after == RepoTasks(storage)
          IN  /\ Len(after) = Len(before)
              /\ Distinct(after)
              /\ RecordsOf(after) =
                    {x \in RecordsOf(before) : x.id # op.task.id} \cup {op.task}

\* C20 witness: the oldest of three records was saved again with a newer
\* creation time and moved to the head of the list.
C20_Witness ==
    /\ Upsert
    /\ Len(RepoTasks(pre)) = 3
    /\ RepoTasks(pre)[3].id = op.task.id
    /\ RepoTasks(pre)[1].createdAt < op.task.createdAt
    /\ RepoTasks(storage)[1] = op.task

\* the last operation was a mutating call of the Task Repository
RepoMutation ==
    \/ op.name \in {"saveTask", "repoDeleteTask"}
    \/ op.name = "repoUpdateTask" /\ op.taskId \in IdsOf(RepoTasks(pre))

\* C21 (as claimed): when saveTask, updateTask of an existing id or deleteTask
\* of the Task Repository returns, the checked read
\* getCached('tasks_list', SHORT) misses.
C21_RepoMutationInvalidates ==
    RepoMutation => getCached(World(storage), "tasks_list", SHORT, op.t).v = Null

\* the keys the last operation removed are exactly the stored keys in gone, and
\* every other key holds what it held
RemovedOnly(gone) ==
    \A k \in Keys : storage[k] = IF k \in gone THEN Absent ELSE pre[k]

CacheKeys == {k \in Keys : k.prefix = CACHE_PREFIX}

\* C22: clearCache and clearAllCaches remove every key that starts with CACHE_
\* and leave every other key and its value as they were (TASKS,
\* OFFLINE_CHANGES, USER, THEME, APP_SETTINGS); clearAllData removes the cache
\* keys, USER and OFFLINE_CHANGES and nothing else, never TASKS.
C22_ClearFrame ==
    /\ op.name \in {"clearCache", "clearAllCaches"} =>
          /\ RemovedOnly(CacheKeys)
          /\ \A i \in 1..Len(log) :
                log[i].ev = "multiRemove" /\ \A k \in log[i].keys : k.prefix = CACHE_PREFIX
    /\ op.name = "clearAllData" =>
          /\ RemovedOnly(CacheKeys \cup {USER, OFFLINE_CHANGES})
          /\ storage[TASKS] = pre[TASKS]

\* C22 witness: clearAllCaches ran with every key stored: the two cache keys
\* are gone and the five others hold what they held.
C22_Witness ==
    /\ op.name = "clearAllCaches"
    /\ \A k \in Keys : pre[k] # Absent
    /\ \A k \in CacheKeys : storage[k] = Absent
    /\ \A k \in Keys \ CacheKeys : storage[k] # Absent /\ storage[k] = pre[k]

\* precedence of a source tag: api > cache > local_permanent > any other
Rank(source) ==
    IF source = "api" THEN 3
    ELSE IF source = "cache" THEN 2
    ELSE IF source = "local_permanent" THEN 1
    ELSE 0

FetchedOk ==
    /\ op.name = "getTasks" /\ op.online
    /\ \E i \in GatewayCalls(log) : log[i].method = "GET" /\ log[i].ok

\* C24: after an online getTasks whose gateway fetch succeeded the result has
\* source api, offline false, and the tasks_list entry is the envelope of the
\* mapped fetched list, stamped with the clock at the write and the SHORT
\* window; and a getTasks(false) that finds an entry inside its SHORT window
\* returns that entry's list with source cache and makes no gateway call.
C24_WriteThrough ==
    /\ FetchedOk =>
          /\ result.source = "api" /\ ~result.offline
          /\ apiResult.source = "api"
          /\ \A i \in 1..Len(apiResult.data.items) :
                apiResult.data.items[i].source = "api"
          /\ storage[CACHE_tasks_list] = Json(Envelope(apiResult.data, now, SHORT))
    /\ ValidHit =>
          /\ result.source = "cache"
          /\ apiResult.data = pre[CACHE_tasks_list].v.data
          /\ GatewayCalls(log) = {}
          /\ storage[CACHE_tasks_list] = pre[CACHE_tasks_list]

\* C24 witness: online, a getTasks(false) issued after the clock had advanced
\* found the list a fetch had written, still inside its window, and served it
\* without a gateway call.
C24_Witness ==
    /\ ValidHit /\ op.online
    /\ op.t > pre[CACHE_tasks_list].v.timestamp
    /\ pre[CACHE_tasks_list].v.data.items # <<>>
    /\ \A i \in 1..Len(pre[CACHE_tasks_list].v.data.items) :
          pre[CACHE_tasks_list].v.data.items[i].source = "api"
    /\ result.source = "cache"
    /\ GatewayCalls(log) = {}

\* a saveTask call returned that no other saveTask call overlapped
SerialReturn == op.name = "saveTask:return" /\ ~op.overlapped

\* two saveTask calls on different ids, one after the other, have both returned
SerialPair ==
    /\ \A s \in SaveSlots : calls[s].pc = "returned" /\ ~calls[s].overlapped
    /\ calls["saveTask-1"].task.id # calls["saveTask-2"].task.id

\* C25: when a saveTask call runs with no other saveTask call in flight
\* between its start and its return, the Task Repository holds afterwards the
\* records it held at the start and the saved task (two calls one after the
\* other leave both tasks); calls on different ids whose reads and writes of
\* TASKS interleave can leave only one of the two tasks (the witness).
C25_SerialSavesKeepBoth ==
    /\ SerialReturn =>
          LET c == calls[op.slot] IN
          /\ RepoTasks(storage) = c.tasks
          /\ IdsOf(RepoTasks(storage)) = IdsOf(c.read) \cup {op.task.id}
    /\ SerialPair =>
          \A s \in SaveSlots : calls[s].task.id \in IdsOf(RepoTasks(storage))

\* C25 witness: two saveTask calls on different ids, started on an empty Task
\* Repository, have both returned, and the Task Repository holds one task: the
\* other update is lost.
C25_Witness ==
    /\ \A s \in SaveSlots : calls[s].pc = "returned" /\ calls[s].overlapped
    /\ calls["saveTask-1"].task.id # calls["saveTask-2"].task.id
    /\ Len(RepoTasks(storage)) = 1

\* getCached(k, w2) read an entry that a setCached(k, v, w1) had written
CheckedRead ==
    /\ op.name = "getCached"
    /\ IsEnvelope(pre[CacheKeyOf(op.key)])

\* C26: the window passed to the read decides: getCached(k, w2) returns the
\* value of an entry written by setCached(k, v, w1), and leaves the entry,
\* exactly when now - timestamp < w2; otherwise it returns null and removes
\* the entry, whatever the expirationTime w1 in the envelope.
C26_WindowPerRead ==
    CheckedRead =>
        LET e == pre[CacheKeyOf(op.key)].v IN
        IF op.t - e.timestamp < op.expirationTime
        THEN result = e.data /\ storage = pre
        ELSE /\ result = Null
             /\ storage = [pre EXCEPT ![CacheKeyOf(op.key)] = Absent]

\* C26 witness: an entry written with the SHORT window was read with the LONG
\* window after more than SHORT had passed, and was returned.
C26_Witness ==
    /\ CheckedRead
    /\ pre[CacheKeyOf(op.key)].v.expirationTime = SHORT
    /\ op.expirationTime = LONG
    /\ op.t - pre[CacheKeyOf(op.key)].v.timestamp >= SHORT
    /\ result = pre[CacheKeyOf(op.key)].v.data
    /\ storage[CacheKeyOf(op.key)] = pre[CacheKeyOf(op.key)]

\* a stored string that is there and does not deserialize into an envelope
Corrupt(str) == str # Absent /\ ~IsEnvelope(str)

\* the last getTasks returned what it returns, with the same gateway calls,
\* when started on storage st
SameAsOn(st) ==
    \E fetch \in FetchChoices(st, op.forceRefresh, op.online, op.t) :
        LET r == Api_getTasks(World(st), op.forceRefresh, op.online, op.t, fetch) IN
        /\ r.v = result
        /\ r.api = apiResult
        /\ SelectSeq(r.w.log, LAMBDA e : e.ev = "apiCall")
              = SelectSeq(log, LAMBDA e : e.ev = "apiCall")

\* C27 (as claimed): getCached on a key whose stored value does not
\* deserialize into an envelope returns null and removes that entry, changing
\* no other key; getTasks in that state returns what it returns on an absent
\* tasks_list entry.
C27_CorruptEntryPurged ==
    /\ (op.name = "getCached" /\ Corrupt(pre[CacheKeyOf(op.key)])) =>
          /\ result = Null
          /\ storage = [pre EXCEPT ![CacheKeyOf(op.key)] = Absent]
    /\ (op.name = "getTasks" /\ Corrupt(pre[CACHE_tasks_list])) =>
          SameAsOn([pre EXCEPT ![CACHE_tasks_list] = Absent])

\* C28 (as claimed): every change is replayed before it is removed from the
\* queue: the changes the final clear of a pass removes are the changes the
\* pass read and replayed and the copies its own replays queued again, and no
\* other, also when deleteTask or updateTask ran while the pass was suspended.
C28_ReplayedBeforeRemoved ==
    op.name = "syncOfflineChanges:return" =>
        /\ \A k \in 1..Len(Queue(pre)) :
              Queue(pre)[k] \in RecordsOf(op.changes) \cup RecordsOf(op.copies)
        /\ Len(Queue(pre)) = Len(op.changes) + Len(op.copies)

\* C29 (as claimed): getTasks reports source api with offline false only when
\* the gateway fetch succeeded during that call, and when the remote/cache
\* subset could not be obtained (fetchTasksFromApi failed) the result does not
\* claim source api.
C29_ProvenanceTruthful ==
    op.name = "getTasks" =>
        /\ (result.source = "api" /\ ~result.offline) =>
              \E i \in GatewayCalls(log) : log[i].method = "GET" /\ log[i].ok
        /\ ~apiResult.success => result.source # "api"

\* the i-th storage call of the last operation writes or removes a key other
\* than OFFLINE_CHANGES
WritesElsewhere(i) ==
    \/ log[i].ev \in {"setItem", "removeItem"} /\ log[i].key # OFFLINE_CHANGES
    \/ log[i].ev = "multiRemove" /\ log[i].keys # {} /\ log[i].keys # {OFFLINE_CHANGES}

\* C30: updateTask of the orchestrator never modifies TASKS and never writes
\* or removes the tasks_list entry, for any id (the id of a permanent task
\* included), connectivity and gateway outcome: no key but OFFLINE_CHANGES is
\* written or removed, and OFFLINE_CHANGES is left alone or gets one change
\* appended.
C30_UpdateTaskFrame ==
    op.name = "updateTask" =>
        /\ storage[TASKS] = pre[TASKS]
        /\ storage[CACHE_tasks_list] = pre[CACHE_tasks_list]
        /\ \A k \in Keys \ {OFFLINE_CHANGES} : storage[k] = pre[k]
        /\ \A i \in 1..Len(log) : ~WritesElsewhere(i)
        /\ \/ storage[OFFLINE_CHANGES] = pre[OFFLINE_CHANGES]
           \/ Appends(Queue(pre), Queue(storage))
        /\ Cardinality({i \in 1..Len(log) : WritesQueue(i)}) <= 1

\* C30 witness: updateTask of the id of a permanent task was queued while the
\* tasks_list entry was there: the Task Repository and the entry are as they
\* were.
C30_Witness ==
    /\ op.name = "updateTask"
    /\ op.taskId \in IdsOf(RepoTasks(pre))
    /\ pre[CACHE_tasks_list] # Absent
    /\ Appends(Queue(pre), Queue(storage))
    /\ storage[TASKS] = pre[TASKS]
    /\ storage[CACHE_tasks_list] = pre[CACHE_tasks_list]

====
